---------------------------- MODULE Spec2Model ----------------------------
(***************************************************************************)
(* A model of cmd/specialize (src/cmd/specialize/main.go): the type-list   *)
(* expander `expand`, the identifier deriver `makeName`, and the pipeline  *)
(* of `main` (flag checks, name and output path, the X/Y/Z tree, template  *)
(* parse, render, write).                                                  *)
(*                                                                         *)
(* Go strings are modelled as sequences of one-character strings, so that  *)
(* splitting, trimming, case mapping and slicing are computed character by *)
(* character as the library does.                                          *)
(***************************************************************************)
EXTENDS Naturals, Integers, Sequences, FiniteSets

VARIABLES
    args,        \* the command line: [x, y, z, input, output], never changed
    x, y, z,     \* *x, *y, *z
    input,       \* *input
    output,      \* *output (main overwrites it when it is empty)
    pc,          \* position in main
    name,        \* local `name` of main
    top,         \* local `top` of main
    ys, zs,      \* locals `ys`, `zs` of main
    stages,      \* the pipeline stages started so far, in order
    status,      \* exit status of the process, read once pc = "exit"
    usageShown,  \* flag.Usage() was called
    inputRead,   \* the template file was opened by template.ParseFiles
    buf,         \* the bytes.Buffer of main, as a sequence of parts
    outFile,     \* the file at *output: "untouched", "partial" or "written"
    tmplErr,     \* err of template.ParseFiles: "unset", "nil" or "err"
    execErr,     \* err of tmpl.Execute
    writeErr,    \* err of ioutil.WriteFile
    list,        \* argument of a call of expand
    ret,         \* its result
    epc,         \* position of the expand call: "call" or "return"
    frames,      \* call stack of makeName: the argument t of each frame
    calls,       \* number of recursive calls of makeName made so far
    result,      \* value returned by makeName
    mpc          \* position of the makeName call: "call" or "return"

mainVars == <<args, x, y, z, input, output, pc, name, top, ys, zs, stages,
              status, usageShown, inputRead, buf, outFile, tmplErr, execErr,
              writeErr>>
expandVars == <<list, ret, epc>>
nameVars == <<frames, calls, result, mpc>>
vars == <<mainVars, expandVars, nameVars>>

---------------------------------------------------------------------------
(* Bounds of the checked input spaces.                                     *)

\* lists given to expand have at most MaxPieces comma-separated pieces
MaxPieces == 3
\* type expressions given to makeName have at most MaxSlices leading "[]"
MaxSlices == 3

---------------------------------------------------------------------------
(* The parts of package strings the program uses.                          *)

Lower == <<"a", "b", "c", "d", "e", "f", "g", "h", "i", "j", "k", "l", "m", "n", "o", "p", "q", "r", "s", "t", "u", "v", "w", "x", "y", "z">>
Upper == <<"A", "B", "C", "D", "E", "F", "G", "H", "I", "J", "K", "L", "M", "N", "O", "P", "Q", "R", "S", "T", "U", "V", "W", "X", "Y", "Z">>
Digits == {"0", "1", "2", "3", "4", "5", "6", "7", "8", "9"}
Space == {" ", "\t"}

Range(s) == {s[i] : i \in 1..Len(s)}

\* unicode.ToLower / unicode.ToTitle on one (ASCII) character
ToLowerRune(c) ==
    IF \E i \in 1..26 : Upper[i] = c
    THEN Lower[CHOOSE i \in 1..26 : Upper[i] = c]
    ELSE c
ToTitleRune(c) ==
    IF \E i \in 1..26 : Lower[i] = c
    THEN Upper[CHOOSE i \in 1..26 : Lower[i] = c]
    ELSE c

\* strings.ToLower
ToLower(s) == [i \in 1..Len(s) |-> ToLowerRune(s[i])]

\* strings.TrimSpace: drop leading and trailing white space
RECURSIVE TrimLeft(_)
TrimLeft(s) ==
    IF s # <<>> /\ Head(s) \in Space THEN TrimLeft(Tail(s)) ELSE s
RECURSIVE TrimRight(_)
TrimRight(s) ==
    IF s # <<>> /\ s[Len(s)] \in Space
    THEN TrimRight(SubSeq(s, 1, Len(s) - 1))
    ELSE s
TrimSpaceOmitted(s) == s

TrimSpace(s) == TrimRight(TrimLeft(s))

\* strings.Index(s, c) for a one-character c: 0-based, -1 when absent
Index(s, c) ==
    IF \E i \in 1..Len(s) : s[i] = c
    THEN (CHOOSE i \in 1..Len(s) : s[i] = c /\ \A j \in 1..(i - 1) : s[j] # c) - 1
    ELSE -1
\* strings.LastIndex(s, c)
LastIndex(s, c) ==
    IF \E i \in 1..Len(s) : s[i] = c
    THEN (CHOOSE i \in 1..Len(s) : s[i] = c /\ \A j \in (i + 1)..Len(s) : s[j] # c) - 1
    ELSE -1

\* strings.Split(s, sep) for a one-character sep: always at least one piece
RECURSIVE Split(_, _)
Split(s, sep) ==
    LET i == Index(s, sep)
    IN  IF i < 0
        THEN <<s>>
        ELSE <<SubSeq(s, 1, i)>> \o Split(SubSeq(s, i + 2, Len(s)), sep)

\* strings.HasPrefix
HasPrefix(s, p) == Len(s) >= Len(p) /\ SubSeq(s, 1, Len(p)) = p

\* strings.Replace(s, old, new, -1) for one-character old and new
Replace(s, old, new) == [i \in 1..Len(s) |-> IF s[i] = old THEN new ELSE s[i]]

isSeparatorUnderscore(c) == c \notin (Range(Lower) \cup Range(Upper) \cup Digits)

\* strings.isSeparator: ASCII letters, digits and underscore are not
\* separators, every other ASCII character is
isSeparator(c) == c \notin (Range(Lower) \cup Range(Upper) \cup Digits \cup {"_"})

\* strings.Title: title-case every letter that begins a word, i.e. that
\* follows a separator (the string starts as if after a space)
Title(s) ==
    [i \in 1..Len(s) |->
        IF isSeparator(IF i = 1 THEN " " ELSE s[i - 1])
        THEN ToTitleRune(s[i])
        ELSE s[i]]

\* strings.Join(pieces, sep)
RECURSIVE JoinWith(_, _)
JoinWith(pieces, sep) ==
    IF pieces = <<>> THEN <<>>
    ELSE IF Len(pieces) = 1 THEN pieces[1]
    ELSE pieces[1] \o sep \o JoinWith(Tail(pieces), sep)

---------------------------------------------------------------------------
(* expand and the macro registry.                                          *)

integersName == <<"i", "n", "t", "e", "g", "e", "r", "s">>
floatsName == <<"f", "l", "o", "a", "t", "s">>

\* var macros
macros ==
    [k \in {integersName, floatsName} |->
        IF k = integersName
        THEN << <<"i", "n", "t">>, <<"i", "n", "t", "8">>, <<"i", "n", "t", "1", "6">>, <<"i", "n", "t", "3", "2">>, <<"i", "n", "t", "6", "4">>,
                <<"u", "i", "n", "t">>, <<"u", "i", "n", "t", "8">>, <<"u", "i", "n", "t", "1", "6">>, <<"u", "i", "n", "t", "3", "2">>, <<"u", "i", "n", "t", "6", "4">> >>
        ELSE << <<"f", "l", "o", "a", "t", "3", "2">>, <<"f", "l", "o", "a", "t", "6", "4">> >>]

macroLookupExact(xt) ==
    IF xt \in DOMAIN macros
    THEN [ok |-> TRUE, exp |-> macros[xt]]
    ELSE [ok |-> FALSE, exp |-> <<>>]

\* exp, ok := macros[strings.ToLower(xt)]
macroLookup(xt) ==
    IF ToLower(xt) \in DOMAIN macros
    THEN [ok |-> TRUE, exp |-> macros[ToLower(xt)]]
    ELSE [ok |-> FALSE, exp |-> <<>>]

RECURSIVE expandLoopKeepEmpty(_, _, _)
expandLoopKeepEmpty(pieces, i, acc) ==
    IF i > Len(pieces) THEN acc
    ELSE LET xt == TrimSpace(pieces[i])
         IN  IF macroLookup(xt).ok
             THEN expandLoopKeepEmpty(pieces, i + 1, acc \o macroLookup(xt).exp)
             ELSE expandLoopKeepEmpty(pieces, i + 1, Append(acc, xt))

\* the loop of expand over the pieces, from piece i on, with ret = acc
RECURSIVE expandLoop(_, _, _)
expandLoop(pieces, i, acc) ==
    IF i > Len(pieces) THEN acc
    ELSE LET xt == TrimSpace(pieces[i])
         IN  IF xt = <<>>
             THEN expandLoop(pieces, i + 1, acc)
             ELSE IF macroLookup(xt).ok
             THEN expandLoop(pieces, i + 1, acc \o macroLookup(xt).exp)
             ELSE expandLoop(pieces, i + 1, Append(acc, xt))

\* func expand(list string) []string
expand(l) == expandLoop(Split(l, ","), 1, <<>>)

---------------------------------------------------------------------------
(* makeName.                                                               *)

Slice == <<"S", "l", "i", "c", "e">>
SlicePrefix == <<"[", "]">>

stripSliceOffByOne(t) == SubSeq(t, 2, Len(t)) \o Slice

\* t[2:] + "Slice", the argument of the recursive call
stripSlice(t) == SubSeq(t, 3, Len(t)) \o Slice

sanitizeKeepBracket(t) ==
    Title(Replace(Replace(t, ".", "_"), "[", "_"))

\* the three strings.Replace calls and strings.Title
sanitize(t) ==
    Title(Replace(Replace(Replace(t, ".", "_"), "[", "_"), "]", "_"))

\* func makeName(t string) string
RECURSIVE makeName(_)
makeName(t) ==
    IF HasPrefix(t, SlicePrefix)
    THEN makeName(stripSlice(t))
    ELSE sanitize(t)

---------------------------------------------------------------------------
(* The parts of package path/filepath the program uses (Unix paths).       *)

\* the path elements kept by filepath.Clean, before ".." is resolved
Elements(path) ==
    SelectSeq(Split(path, "/"), LAMBDA e : e # <<>> /\ e # <<".">>)

\* filepath.Clean's treatment of "..": it removes the element before it,
\* is dropped at the root, and is kept at the start of a relative path
RECURSIVE Resolve(_, _, _)
Resolve(elems, rooted, out) ==
    IF elems = <<>> THEN out
    ELSE IF Head(elems) # <<".", ".">>
    THEN Resolve(Tail(elems), rooted, Append(out, Head(elems)))
    ELSE IF out # <<>> /\ out[Len(out)] # <<".", ".">>
    THEN Resolve(Tail(elems), rooted, SubSeq(out, 1, Len(out) - 1))
    ELSE IF rooted
    THEN Resolve(Tail(elems), rooted, out)
    ELSE Resolve(Tail(elems), rooted, Append(out, <<".", ".">>))

\* filepath.Clean
Clean(path) ==
    LET rooted == path # <<>> /\ path[1] = "/"
        body == JoinWith(Resolve(Elements(path), rooted, <<>>), <<"/">>)
        out == IF rooted THEN <<"/">> \o body ELSE body
    IN  IF out = <<>> THEN <<".">> ELSE out

\* filepath.Dir
Dir(path) == Clean(SubSeq(path, 1, LastIndex(path, "/") + 1))

RECURSIVE TrimSlashes(_)
TrimSlashes(path) ==
    IF path # <<>> /\ path[Len(path)] = "/"
    THEN TrimSlashes(SubSeq(path, 1, Len(path) - 1))
    ELSE path

\* filepath.Base
Base(path) ==
    IF path = <<>> THEN <<".">>
    ELSE LET p == TrimSlashes(path)
             b == SubSeq(p, LastIndex(p, "/") + 2, Len(p))
         IN  IF b = <<>> THEN <<"/">> ELSE b

\* filepath.Join(dir, file)
Join(dir, file) ==
    IF dir = <<>> /\ file = <<>> THEN <<>>
    ELSE IF dir = <<>> THEN Clean(file)
    ELSE Clean(dir \o <<"/">> \o file)

baseNameLastDot(in) ==
    LET b == Base(in)
        index == LastIndex(b, ".")
    IN  IF index > 0 THEN SubSeq(b, 1, index) ELSE b

\* name := filepath.Base(*input), cut at its first "." when that is not
\* its first character
baseName(in) ==
    LET b == Base(in)
        index == Index(b, ".")
    IN  IF index > 0 THEN SubSeq(b, 1, index) ELSE b

\* filepath.Join(filepath.Dir(*input), name+".go")
defaultOutput(in, nm) == Join(Dir(in), nm \o <<".", "g", "o">>)

---------------------------------------------------------------------------
(* The tree of main.                                                       *)

\* the loop over expand(*z): one Z per type
MakeZs(types) ==
    [k \in 1..Len(types) |-> [Name |-> makeName(types[k]), Type |-> types[k]]]

MakeYsRagged(types, zlist) ==
    [j \in 1..Len(types) |->
        [Name |-> makeName(types[j]), Type |-> types[j],
         Z |-> IF j = 1 THEN zlist ELSE <<>>]]

\* the loop over expand(*y): one Y per type, each holding zs
MakeYs(types, zlist) ==
    [j \in 1..Len(types) |->
        [Name |-> makeName(types[j]), Type |-> types[j], Z |-> zlist]]

\* the loop over expand(*x): one X per type, each holding ys
MakeXs(types, ylist) ==
    [i \in 1..Len(types) |->
        [Name |-> makeName(types[i]), Type |-> types[i], Y |-> ylist]]

---------------------------------------------------------------------------
(* main.                                                                   *)

Empty == <<>>

\* values of --x, --y and --z on the checked command lines
XArgs == { Empty, <<",">>, <<"i", "n", "t">>, <<"i", "n", "t", ",", "[", "]", "b", "y", "t", "e">>, <<"f", "l", "o", "a", "t", "s", ",", " ", "a", ".", "b", ".", "c">>,
           <<" ", "I", "n", "t", " ", ",", ",", "i", "n", "t">>, <<"[", "3", "]", "t", ",", "x", "[", "k", "]">> }
YArgs == { Empty, <<" ", ",", " ">>, <<"i", "n", "t">>, <<"F", "l", "o", "a", "t", "s">>, <<"[", "]", "a", ".", "b", ",", "i", "n", "t">> }
ZArgs == { Empty, <<",">>, <<"u", "8">>, <<"x", ",", "[", "]", "[", "]", "y">> }
\* values of --input and --output
InputArgs == { Empty, <<"a", ".", "t", "m", "p", "l">>, <<"p", "k", "g", "/", "f", "o", "o", ".", "g", "o", ".", "t", "m", "p", "l">>, <<"f", "o", "o">>,
               <<".", "t", "m", "p", "l">>, <<"d", "/", ".", "x", ".", "t">>, <<"/", "r", "/", "b", ".", "c", ".", "d">>, <<"a", ".", "b", "/", "c">>,
               <<".", ".", "/", "t", ".", "x">>, <<"d", "/", "e", ".", "t", "/">>, <<".", ".">>, <<"/">>, <<".", "/", "a", "/", ".", ".", "/", "b", ".", "t">> }
OutputArgs == { Empty, <<"o", "u", "t", ".", "g", "o">> }

Stages == << "config", "build", "parse", "render", "write" >>

IdleExpand == list = <<>> /\ ret = <<>> /\ epc = "idle"
IdleName == frames = <<>> /\ calls = 0 /\ result = <<>> /\ mpc = "idle"

\* the process before main runs: flags hold their defaults
InitMain ==
    /\ args \in [x : XArgs, y : YArgs, z : ZArgs,
                 input : InputArgs, output : OutputArgs]
    /\ x = Empty /\ y = Empty /\ z = Empty
    /\ input = Empty /\ output = Empty
    /\ pc = "flagParse"
    /\ name = Empty
    /\ top = [Name |-> Empty, X |-> <<>>]
    /\ ys = <<>> /\ zs = <<>>
    /\ stages = <<>>
    /\ status = 0
    /\ usageShown = FALSE
    /\ inputRead = FALSE
    /\ buf = <<>>
    /\ outFile = "untouched"
    /\ tmplErr = "unset" /\ execErr = "unset" /\ writeErr = "unset"

Init == InitMain /\ IdleExpand /\ IdleName

\* log.Fatalf: the message is logged and the process exits with status 1
Fatalf ==
    /\ status' = 1
    /\ pc' = "exit"

\* flag.Parse()
FlagParse ==
    /\ pc = "flagParse"
    /\ x' = args.x /\ y' = args.y /\ z' = args.z
    /\ input' = args.input /\ output' = args.output
    /\ pc' = "checkInput"
    /\ UNCHANGED <<expandVars, nameVars>>
    /\ UNCHANGED <<args, name, top, ys, zs, stages, status, usageShown,
                   inputRead, buf, outFile, tmplErr, execErr, writeErr>>

\* if *input == "" { flag.Usage(); log.Fatalf("no template file") }
CheckInput ==
    /\ pc = "checkInput"
    /\ stages' = Append(stages, "config")
    /\ IF input = Empty
       THEN usageShown' = TRUE /\ Fatalf
       ELSE pc' = "checkX" /\ UNCHANGED <<usageShown, status>>
    /\ UNCHANGED <<expandVars, nameVars>>
    /\ UNCHANGED <<args, x, y, z, input, output, name, top, ys, zs,
                   inputRead, buf, outFile, tmplErr, execErr, writeErr>>

\* if *x == "" { flag.Usage(); log.Fatalf("no specialization types") }
CheckX ==
    /\ pc = "checkX"
    /\ IF x = Empty
       THEN usageShown' = TRUE /\ Fatalf
       ELSE pc' = "name" /\ UNCHANGED <<usageShown, status>>
    /\ UNCHANGED <<expandVars, nameVars>>
    /\ UNCHANGED <<args, x, y, z, input, output, name, top, ys, zs, stages,
                   inputRead, buf, outFile, tmplErr, execErr, writeErr>>

\* name := filepath.Base(*input), cut at the first "."
SetName ==
    /\ pc = "name"
    /\ name' = baseName(input)
    /\ pc' = "output"
    /\ UNCHANGED <<expandVars, nameVars>>
    /\ UNCHANGED <<args, x, y, z, input, output, top, ys, zs, stages, status,
                   usageShown, inputRead, buf, outFile, tmplErr, execErr,
                   writeErr>>

\* if *output == "" { *output = filepath.Join(filepath.Dir(*input), name+".go") }
SetOutput ==
    /\ pc = "output"
    /\ output' = IF output = Empty THEN defaultOutput(input, name) ELSE output
    /\ pc' = "top"
    /\ UNCHANGED <<expandVars, nameVars>>
    /\ UNCHANGED <<args, x, y, z, input, name, top, ys, zs, stages, status,
                   usageShown, inputRead, buf, outFile, tmplErr, execErr,
                   writeErr>>

\* top := Top{name, nil}; var ys []*Y
NewTop ==
    /\ pc = "top"
    /\ stages' = Append(stages, "build")
    /\ top' = [Name |-> name, X |-> <<>>]
    /\ ys' = <<>>
    /\ pc' = "buildZ"
    /\ UNCHANGED <<expandVars, nameVars>>
    /\ UNCHANGED <<args, x, y, z, input, output, name, zs, status,
                   usageShown, inputRead, buf, outFile, tmplErr, execErr,
                   writeErr>>

\* if *y != "" { var zs []*Z; if *z != "" { for ... expand(*z) ... } ... }
BuildZ ==
    /\ pc = "buildZ"
    /\ zs' = IF y # Empty /\ z # Empty THEN MakeZs(expand(z)) ELSE <<>>
    /\ pc' = "buildY"
    /\ UNCHANGED <<expandVars, nameVars>>
    /\ UNCHANGED <<args, x, y, z, input, output, name, top, ys, stages,
                   status, usageShown, inputRead, buf, outFile, tmplErr,
                   execErr, writeErr>>

\* if *y != "" { ...; for ... expand(*y) { ys = append(ys, &Y{..., Z: zs}) } }
BuildY ==
    /\ pc = "buildY"
    /\ ys' = IF y # Empty THEN MakeYs(expand(y), zs) ELSE ys
    /\ pc' = "buildX"
    /\ UNCHANGED <<expandVars, nameVars>>
    /\ UNCHANGED <<args, x, y, z, input, output, name, top, zs, stages,
                   status, usageShown, inputRead, buf, outFile, tmplErr,
                   execErr, writeErr>>

\* for ... expand(*x) { top.X = append(top.X, &X{..., Y: ys}) }
BuildX ==
    /\ pc = "buildX"
    /\ top' = [top EXCEPT !.X = MakeXs(expand(x), ys)]
    /\ pc' = "parse"
    /\ UNCHANGED <<expandVars, nameVars>>
    /\ UNCHANGED <<args, x, y, z, input, output, name, ys, zs, stages,
                   status, usageShown, inputRead, buf, outFile, tmplErr,
                   execErr, writeErr>>

\* tmpl, err := template.ParseFiles(*input); fatal on err
ParseFiles ==
    /\ pc = "parse"
    /\ stages' = Append(stages, "parse")
    /\ inputRead' = TRUE
    /\ \E err \in {"nil", "err"} :
          /\ tmplErr' = err
          /\ IF err = "err"
             THEN Fatalf
             ELSE pc' = "execute" /\ UNCHANGED status
    /\ UNCHANGED <<expandVars, nameVars>>
    /\ UNCHANGED <<args, x, y, z, input, output, name, top, ys, zs,
                   usageShown, buf, outFile, execErr, writeErr>>

ExecuteNoHalt ==
    /\ pc = "execute"
    /\ stages' = Append(stages, "render")
    /\ \E err \in {"nil", "err"} :
          /\ execErr' = err
          /\ buf' = IF err = "nil" THEN <<"header", "rendered">> ELSE <<"header">>
          /\ pc' = "write" /\ UNCHANGED status
    /\ UNCHANGED <<expandVars, nameVars>>
    /\ UNCHANGED <<args, x, y, z, input, output, name, top, ys, zs,
                   usageShown, inputRead, outFile, tmplErr, writeErr>>

\* buf.WriteString(header); tmpl.Execute(&buf, top); fatal on err
Execute ==
    /\ pc = "execute"
    /\ stages' = Append(stages, "render")
    /\ \E err \in {"nil", "err"} :
          /\ execErr' = err
          /\ buf' = IF err = "nil" THEN <<"header", "rendered">> ELSE <<"header">>
          /\ IF err = "err"
             THEN Fatalf
             ELSE pc' = "write" /\ UNCHANGED status
    /\ UNCHANGED <<expandVars, nameVars>>
    /\ UNCHANGED <<args, x, y, z, input, output, name, top, ys, zs,
                   usageShown, inputRead, outFile, tmplErr, writeErr>>

\* ioutil.WriteFile(*output, buf.Bytes(), 0644); fatal on err, else main
\* returns and the process exits with status 0
WriteFile ==
    /\ pc = "write"
    /\ stages' = Append(stages, "write")
    /\ \E err \in {"nil", "err"} :
          /\ writeErr' = err
          /\ IF err = "err"
             THEN /\ outFile' \in {"untouched", "partial"}
                  /\ Fatalf
             ELSE /\ outFile' = "written"
                  /\ status' = 0
                  /\ pc' = "exit"
    /\ UNCHANGED <<expandVars, nameVars>>
    /\ UNCHANGED <<args, x, y, z, input, output, name, top, ys, zs,
                   usageShown, inputRead, buf, tmplErr, execErr>>

Next ==
    \/ FlagParse
    \/ CheckInput
    \/ CheckX
    \/ SetName
    \/ SetOutput
    \/ NewTop
    \/ BuildZ
    \/ BuildY
    \/ BuildX
    \/ ParseFiles
    \/ Execute
    \/ WriteFile

Spec == Init /\ [][Next]_vars

---------------------------------------------------------------------------
(* expand on its own: one call on every list of at most MaxPieces pieces.  *)

\* the pieces the checked lists are joined from
ExpandPieces == { Empty, <<" ">>, <<"i", "n", "t">>, <<" ", "i", "n", "t">>, <<"x", ".", "Y", " ">>, <<"I", "n", "t", "e", "g", "e", "r", "s">>,
                  <<"F", "L", "O", "A", "T", "S">>, <<"f", "l", "o", "a", "t", "s">>, <<"\t", "i", "n", "T", "e", "g", "e", "r", "s", " ">> }

ExpandLists ==
    { JoinWith(ps, <<",">>) :
        ps \in UNION { [1..n -> ExpandPieces] : n \in 1..MaxPieces } }

IdleMain ==
    /\ args = [x |-> Empty, y |-> Empty, z |-> Empty,
               input |-> Empty, output |-> Empty]
    /\ x = Empty /\ y = Empty /\ z = Empty
    /\ input = Empty /\ output = Empty
    /\ pc = "idle"
    /\ name = Empty
    /\ top = [Name |-> Empty, X |-> <<>>]
    /\ ys = <<>> /\ zs = <<>>
    /\ stages = <<>>
    /\ status = 0
    /\ usageShown = FALSE
    /\ inputRead = FALSE
    /\ buf = <<>>
    /\ outFile = "untouched"
    /\ tmplErr = "unset" /\ execErr = "unset" /\ writeErr = "unset"

InitExpand ==
    /\ IdleMain /\ IdleName
    /\ list \in ExpandLists
    /\ ret = <<>>
    /\ epc = "call"

\* a call of expand(list) returns
ExpandCall ==
    /\ epc = "call"
    /\ ret' = expand(list)
    /\ epc' = "return"
    /\ UNCHANGED <<list, mainVars, nameVars>>

NextExpand == ExpandCall

SpecExpand == InitExpand /\ [][NextExpand]_vars

---------------------------------------------------------------------------
(* makeName on its own, one step per call of the recursion.                *)

\* type expressions that do not start with "[]"
NameRemainders == { Empty, <<"i", "n", "t">>, <<"b", "y", "t", "e">>, <<"I", "n", "t">>, <<"u", "i", "n", "t", "6", "4">>,
                    <<"a", ".", "b", ".", "c">>, <<"f", "o", "o", ".", "B", "a", "z">>, <<"[">>, <<"]">>, <<"[", "3", "]", "t">>,
                    <<"x", "[", "]">>, <<"a", " ", "b">>, <<"*", "t">>, <<"_", "x">>, <<"m", "[", "k", "]", "v">>,
                    <<"]", "[">>, <<"p", ".", "[", "]", "q">> }

RECURSIVE Slices(_)
Slices(k) == IF k = 0 THEN <<>> ELSE SlicePrefix \o Slices(k - 1)

NameArgs == { Slices(k) \o r : k \in 0..MaxSlices, r \in NameRemainders }

InitMakeName ==
    /\ IdleMain /\ IdleExpand
    /\ frames \in { <<t>> : t \in NameArgs }
    /\ calls = 0
    /\ result = <<>>
    /\ mpc = "call"

\* if strings.HasPrefix(t, "[]") { return makeName(t[2:] + "Slice") }
MakeNameRecurse ==
    /\ mpc = "call"
    /\ HasPrefix(frames[Len(frames)], SlicePrefix)
    /\ frames' = Append(frames, stripSlice(frames[Len(frames)]))
    /\ calls' = calls + 1
    /\ UNCHANGED <<result, mpc, mainVars, expandVars>>

\* the Replace calls and return strings.Title(t)
MakeNameBase ==
    /\ mpc = "call"
    /\ ~HasPrefix(frames[Len(frames)], SlicePrefix)
    /\ result' = sanitize(frames[Len(frames)])
    /\ mpc' = "return"
    /\ UNCHANGED <<frames, calls, mainVars, expandVars>>

\* a recursive call returns its value to the frame that made it
MakeNameReturn ==
    /\ mpc = "return"
    /\ Len(frames) > 1
    /\ frames' = SubSeq(frames, 1, Len(frames) - 1)
    /\ UNCHANGED <<calls, result, mpc, mainVars, expandVars>>

NextMakeName ==
    \/ MakeNameRecurse
    \/ MakeNameBase
    \/ MakeNameReturn

SpecMakeName == InitMakeName /\ [][NextMakeName]_vars

\* the call runs to its end: nothing else is scheduled, every step is taken
SpecMakeNameFair == SpecMakeName /\ WF_vars(NextMakeName)

---------------------------------------------------------------------------
(* Properties of the tree built by main.                                   *)

\* main has built the tree (the loop over expand(*x) has run)
TreeBuilt == pc = "parse" \/ \E s \in 1..Len(stages) : stages[s] = "parse"

RECURSIVE SumLen(_)
SumLen(seqs) == IF seqs = <<>> THEN 0 ELSE Len(Head(seqs)) + SumLen(Tail(seqs))

\* the number of Z entries reachable from the X entries xs
RECURSIVE ZLeaves(_)
ZLeaves(xs) ==
    IF xs = <<>> THEN 0
    ELSE SumLen([j \in 1..Len(Head(xs).Y) |-> Head(xs).Y[j].Z]) + ZLeaves(Tail(xs))

\* C1: when the expanded Y and Z lists are non-empty, the built tree has one
\* X entry per expanded X type in order, every X entry holds the same Y
\* sequence (one per expanded Y type, in order), every Y entry holds the
\* same Z sequence (one per expanded Z type, in order), and the number of Z
\* leaves is m*n*p.
C1_CrossProduct ==
    LET ex == expand(args.x)
        ey == expand(args.y)
        ez == expand(args.z)
    IN  (TreeBuilt /\ Len(ey) > 0 /\ Len(ez) > 0) =>
          /\ Len(top.X) = Len(ex)
          /\ \A i \in 1..Len(top.X) :
                /\ top.X[i].Type = ex[i]
                /\ Len(top.X[i].Y) = Len(ey)
                /\ top.X[i].Y = top.X[1].Y
                /\ \A j \in 1..Len(top.X[i].Y) :
                      /\ top.X[i].Y[j].Type = ey[j]
                      /\ Len(top.X[i].Y[j].Z) = Len(ez)
                      /\ top.X[i].Y[j].Z = top.X[1].Y[1].Z
                      /\ \A k \in 1..Len(top.X[i].Y[j].Z) :
                            top.X[i].Y[j].Z[k].Type = ez[k]
          /\ ZLeaves(top.X) = Len(ex) * Len(ey) * Len(ez)

C1_Witness ==
    /\ TreeBuilt
    /\ Len(top.X) >= 2
    /\ Len(top.X[2].Y) >= 2
    /\ Len(top.X[2].Y[2].Z) >= 2

\* a flag value made of commas and white space only (or empty)
OnlyCommasAndSpace(s) == \A i \in 1..Len(s) : s[i] \in Space \cup {","}

\* C2: with --y absent or made of commas and white space only and --z
\* naming a type, every X entry of the built tree has an empty Y sequence,
\* no Z entry is reachable, and the run fails only if a later stage (parse,
\* render, write) fails.
C2_ZWithoutY ==
    (OnlyCommasAndSpace(args.y) /\ ~OnlyCommasAndSpace(args.z)) =>
       /\ TreeBuilt =>
             /\ \A i \in 1..Len(top.X) : top.X[i].Y = <<>>
             /\ ZLeaves(top.X) = 0
             /\ ~usageShown
       /\ (args.input # Empty /\ args.x # Empty /\ pc = "exit" /\ status # 0) =>
             (tmplErr = "err" \/ execErr = "err" \/ writeErr = "err")

C2_Witness ==
    /\ pc = "exit" /\ status = 0
    /\ args.y = <<" ", ",", " ">>
    /\ args.z = <<"x", ",", "[", "]", "[", "]", "y">>
    /\ Len(top.X) >= 2

\* C5: every X, Y and Z entry of the built tree has the Type of the
\* corresponding element of the expanded list and a Name that is non-empty
\* and holds none of '.', '[' and ']'.
GoodName(n) == n # <<>> /\ Range(n) \cap {".", "[", "]"} = {}

C5_EntryNames ==
    TreeBuilt =>
       /\ Len(top.X) = Len(expand(args.x))
       /\ \A i \in 1..Len(top.X) :
             /\ top.X[i].Type = expand(args.x)[i]
             /\ GoodName(top.X[i].Name)
             /\ Len(top.X[i].Y) <= Len(expand(args.y))
             /\ \A j \in 1..Len(top.X[i].Y) :
                   /\ top.X[i].Y[j].Type = expand(args.y)[j]
                   /\ GoodName(top.X[i].Y[j].Name)
                   /\ Len(top.X[i].Y[j].Z) <= Len(expand(args.z))
                   /\ \A k \in 1..Len(top.X[i].Y[j].Z) :
                         /\ top.X[i].Y[j].Z[k].Type = expand(args.z)[k]
                         /\ GoodName(top.X[i].Y[j].Z[k].Name)

C5_Witness ==
    /\ TreeBuilt
    /\ \E i \in 1..Len(top.X) :
          /\ "]" \in Range(top.X[i].Type)
          /\ \E j \in 1..Len(top.X[i].Y) :
                /\ "." \in Range(top.X[i].Y[j].Type)
                /\ \E k \in 1..Len(top.X[i].Y[j].Z) :
                      "[" \in Range(top.X[i].Y[j].Z[k].Type)

\* C8: in every run that reaches template parsing the tree has at least one
\* X entry, and a run whose --x yields no type expression never starts
\* building the tree.
C8_XNeverEmpty ==
    /\ TreeBuilt => Len(top.X) >= 1
    /\ (expand(args.x) = <<>>) => \A s \in 1..Len(stages) : stages[s] # "build"

---------------------------------------------------------------------------
(* Properties of the pipeline of main.                                     *)

IsPrefix(s, t) == Len(s) <= Len(t) /\ s = SubSeq(t, 1, Len(s))

StageInv ==
    /\ IsPrefix(stages, Stages)
    /\ (pc = "exit") => (status \in {0, 1})
    /\ (pc = "exit" /\ status = 0) <=>
          (tmplErr = "nil" /\ execErr = "nil" /\ writeErr = "nil")
    /\ usageShown =>
          /\ pc = "exit" /\ status = 1
          /\ stages = <<"config">>
          /\ ~inputRead /\ buf = <<>> /\ outFile = "untouched"
          /\ top.X = <<>>
    /\ (pc = "exit" /\ (args.input = Empty \/ args.x = Empty)) => usageShown
    /\ (tmplErr = "err") =>
          /\ pc = "exit" /\ status = 1
          /\ stages = SubSeq(Stages, 1, 3)
          /\ buf = <<>> /\ outFile = "untouched"
    /\ (execErr = "err") =>
          /\ pc = "exit" /\ status = 1
          /\ stages = SubSeq(Stages, 1, 4)
          /\ outFile = "untouched"
    /\ (writeErr = "err") => (pc = "exit" /\ status = 1)
    /\ (outFile # "untouched") => (tmplErr = "nil" /\ execErr = "nil")

\* C9: the stages start in the order config, build, parse, render, write;
\* a failure exits with status 1 and no step follows the exit; a missing
\* --input or --x stops the run before anything is read, rendered or
\* written; the output file is touched only after parse and render both
\* succeeded.
C9_Pipeline == []StageInv /\ [][pc # "exit"]_vars

C9_Witness ==
    /\ pc = "exit" /\ status = 1
    /\ execErr = "err"
    /\ outFile = "untouched"
    /\ Len(top.X) >= 1

\* the part of b before its first "." (all of b when it has none)
RECURSIVE BeforeFirstDot(_)
BeforeFirstDot(b) ==
    IF b = <<>> \/ Head(b) = "." THEN <<>>
    ELSE <<Head(b)>> \o BeforeFirstDot(Tail(b))

NameSet == pc \in {"output", "top"} \/ Len(stages) >= 2
OutputSet == pc = "top" \/ Len(stages) >= 2

OutputRule ==
    OutputSet =>
       /\ output = IF args.output = Empty
                   THEN Join(Dir(args.input), name \o <<".", "g", "o">>)
                   ELSE args.output
       /\ (args.input = <<"p", "k", "g", "/", "f", "o", "o", ".", "g", "o", ".", "t", "m", "p", "l">> /\ args.output = Empty) =>
             (name = <<"f", "o", "o">> /\ output = <<"p", "k", "g", "/", "f", "o", "o", ".", "g", "o">>)
       /\ (args.input = <<"a", ".", "t", "m", "p", "l">> /\ args.output = Empty) => output = <<"a", ".", "g", "o">>

\* C10 as stated: for every non-empty --input the Name is the part of the
\* base name before its first '.', and so holds no '.'; the default output
\* is the input's directory joined with Name + ".go"; a given --output is
\* kept.
C10_NameHasNoDot ==
    /\ NameSet =>
          /\ name = BeforeFirstDot(Base(args.input))
          /\ "." \notin Range(name)
    /\ Len(stages) >= 2 => top.Name = name
    /\ OutputRule

\* C10 amended: that holds when the base name does not start with '.'; a
\* base name that starts with '.' is the Name as it is.
C10_NameAndOutput ==
    /\ NameSet =>
          LET b == Base(args.input)
          IN  IF Head(b) = "."
              THEN name = b
              ELSE name = BeforeFirstDot(b) /\ "." \notin Range(name)
    /\ Len(stages) >= 2 => top.Name = name
    /\ OutputRule

C10_Witness ==
    /\ pc = "exit" /\ status = 0
    /\ args.input = <<"p", "k", "g", "/", "f", "o", "o", ".", "g", "o", ".", "t", "m", "p", "l">>
    /\ args.output = Empty
    /\ top.Name = <<"f", "o", "o">>

---------------------------------------------------------------------------
(* Properties of expand.                                                   *)

\* the pieces of l between commas, trimmed, without the empty ones
Cleaned(l) ==
    SelectSeq([i \in 1..Len(Split(l, ",")) |-> TrimSpace(Split(l, ",")[i])],
              LAMBDA p : p # <<>>)

\* the expansions of the pieces ps, one after the other
RECURSIVE ExpandEach(_)
ExpandEach(ps) ==
    IF ps = <<>> THEN <<>> ELSE expand(Head(ps)) \o ExpandEach(Tail(ps))

\* C3: expand(list) is the expansion of the trimmed non-empty pieces of
\* list in their order; white space around pieces and empty segments (also
\* added ones, leading and trailing) do not change it, and no element of
\* the result is empty.
C3_ExpandIgnoresBlanks ==
    (epc = "return") =>
       /\ ret = ExpandEach(Cleaned(list))
       /\ ret = expand(JoinWith(Cleaned(list), <<",">>))
       /\ ret = expand(<<" ", ",", "\t">> \o list \o <<" ", ",", " ", ",">>)
       /\ \A i \in 1..Len(ret) : ret[i] # <<>>

C3_Witness ==
    /\ epc = "return"
    /\ list = <<"i", "n", "t", ",", " ", ",", " ", "i", "n", "t">>
    /\ ret = << <<"i", "n", "t">>, <<"i", "n", "t">> >>

\* a and b are equal up to the case of their letters
EqualFold(a, b) ==
    /\ Len(a) = Len(b)
    /\ \A i \in 1..Len(a) :
          \/ a[i] = b[i]
          \/ \E n \in 1..26 : {a[i], b[i]} = {Lower[n], Upper[n]}

IntegerTypes ==
    << <<"i", "n", "t">>, <<"i", "n", "t", "8">>, <<"i", "n", "t", "1", "6">>, <<"i", "n", "t", "3", "2">>, <<"i", "n", "t", "6", "4">>,
       <<"u", "i", "n", "t">>, <<"u", "i", "n", "t", "8">>, <<"u", "i", "n", "t", "1", "6">>, <<"u", "i", "n", "t", "3", "2">>, <<"u", "i", "n", "t", "6", "4">> >>
FloatTypes == << <<"f", "l", "o", "a", "t", "3", "2">>, <<"f", "l", "o", "a", "t", "6", "4">> >>

\* what one trimmed piece stands for
PieceTypes(p) ==
    IF EqualFold(p, <<"i", "n", "t", "e", "g", "e", "r", "s">>) THEN IntegerTypes
    ELSE IF EqualFold(p, <<"f", "l", "o", "a", "t", "s">>) THEN FloatTypes
    ELSE <<p>>

RECURSIVE AllPieceTypes(_)
AllPieceTypes(ps) ==
    IF ps = <<>> THEN <<>> ELSE PieceTypes(Head(ps)) \o AllPieceTypes(Tail(ps))

\* C4: every trimmed piece that is "integers" or "floats" up to case is
\* replaced in place by that macro's types in the registry's order and
\* spelling, every other piece is kept as written, and nothing is
\* deduplicated.
C4_MacroExpansion ==
    (epc = "return") =>
       /\ ret = AllPieceTypes(Cleaned(list))
       /\ Len(ret) = SumLen([i \in 1..Len(Cleaned(list)) |-> PieceTypes(Cleaned(list)[i])])

C4_Witness ==
    /\ epc = "return"
    /\ list = <<"i", "n", "t", ",", "I", "n", "t", "e", "g", "e", "r", "s", ",", "F", "L", "O", "A", "T", "S">>
    /\ Len(ret) = 13
    /\ ret[1] = <<"i", "n", "t">> /\ ret[2] = <<"i", "n", "t">> /\ ret[13] = <<"f", "l", "o", "a", "t", "6", "4">>

---------------------------------------------------------------------------
(* Properties of makeName.                                                 *)

\* the outermost call of makeName has returned
Returned == mpc = "return" /\ Len(frames) = 1

\* C6 as stated: makeName("a.b.c") = "A_B_C".
C6_EveryQualifierCapitalized ==
    (Returned /\ frames[1] = <<"a", ".", "b", ".", "c">>) => result = <<"A", "_", "B", "_", "C">>

\* C6 amended: makeName("a.b.c") = "A_b_c", only the first letter being
\* capitalized, as in makeName("foo.Baz") = "Foo_Baz".
C6_FirstLetterCapitalized ==
    /\ (Returned /\ frames[1] = <<"a", ".", "b", ".", "c">>) => result = <<"A", "_", "b", "_", "c">>
    /\ (Returned /\ frames[1] = <<"f", "o", "o", ".", "B", "a", "z">>) => result = <<"F", "o", "o", "_", "B", "a", "z">>

C6_Witness == Returned /\ frames[1] = <<"a", ".", "b", ".", "c">> /\ calls = 0

\* the number of leading "[]" of t, and t without them
RECURSIVE CountSlices(_)
CountSlices(t) ==
    IF Len(t) >= 2 /\ t[1] = "[" /\ t[2] = "]"
    THEN 1 + CountSlices(SubSeq(t, 3, Len(t)))
    ELSE 0
RECURSIVE DropSlices(_)
DropSlices(t) ==
    IF Len(t) >= 2 /\ t[1] = "[" /\ t[2] = "]"
    THEN DropSlices(SubSeq(t, 3, Len(t)))
    ELSE t

RECURSIVE Repeat(_, _)
Repeat(s, k) == IF k = 0 THEN <<>> ELSE s \o Repeat(s, k - 1)

NameResult ==
    Returned =>
       LET t == frames[1]
           k == CountSlices(t)
       IN  /\ calls = k
           /\ result = sanitize(DropSlices(t)) \o Repeat(Slice, k)
           /\ result = makeName(t)
           /\ (t = <<"[", "]", "b", "y", "t", "e">>) => result = <<"B", "y", "t", "e", "S", "l", "i", "c", "e">>
           /\ (t = <<"[", "]", "[", "]", "i", "n", "t">>) => result = <<"I", "n", "t", "S", "l", "i", "c", "e", "S", "l", "i", "c", "e">>

\* each recursive call is on an argument with one leading "[]" less
OnePrefixLess ==
    \A i \in 2..Len(frames) :
        CountSlices(frames[i]) = CountSlices(frames[i - 1]) - 1

\* C7: every call of makeName returns; on k leading "[]" followed by r it
\* makes exactly k recursive calls and returns the capitalized, substituted
\* r followed by k times "Slice"; the appended "Slice" never makes a new
\* leading "[]".
C7_MakeNameSlices == <>Returned /\ []NameResult /\ []OnePrefixLess

C7_Witness ==
    /\ Returned
    /\ frames[1] = <<"[", "]", "[", "]", "i", "n", "t">>
    /\ calls = 2
    /\ result = <<"I", "n", "t", "S", "l", "i", "c", "e", "S", "l", "i", "c", "e">>

=============================================================================
